---- MODULE Spec2Model ----
(***************************************************************************)
(* SEAL negacyclic NTT core: native/src/seal/util/smallntt.cpp.            *)
(*                                                                         *)
(* The model is the SmallNTTTables object (its six buffers and scalars),   *)
(* one operand buffer, and the loop position of the pass that is running   *)
(* on it.  initialize is one step; each pass advances one block            *)
(* (one iteration of the "for i" loop) per step.                           *)
(*                                                                         *)
(* Machine words.  The source computes in uint64_t and supports moduli     *)
(* below 2^62.  TLC's integers have 32 bits, so the same code is run at a  *)
(* word of WordBits bits with the modulus limit scaled alike:              *)
(* q < 2^(WordBits-2), every stored word reduced modulo 2^WordBits.        *)
(***************************************************************************)
EXTENDS Integers, Sequences, FiniteSets, TLC

\* Width of the machine word of the model (64 in the source).
WordBits == 9

\* Largest coeff_count_power the model constructs tables for.
MaxPower == 4

\* Number of scrambled operands tried per table and range.
MaxSeeds == 3

Beta == 2^WordBits

\* A value of the word type after unsigned wrap-around.
Wrap(x) == x % Beta

\* Moduli the constructor is called with: every value below the supported
\* limit (2^62 in the source), prime or not.
Moduli == 2..(2^(WordBits - 2) - 1)

Powers == 1..MaxPower

\* Contents of memory that allocate_uint hands out and nobody has written.
Junk == {0, Beta - 1}

(***************************************************************************)
(* Scaled-arithmetic primitives (seal/util/uintarith.h,                    *)
(* uintarithsmallmod.h, numth.h, common.h: used by smallntt.cpp).          *)
(***************************************************************************)

\* High word of the double-word product.
multiply_uint64_hw64(a, b) == (a * b) \div Beta

\* Low quotient word of the double-word value (0, x) divided by q.
divide_uint128_uint64_inplace(x, q) == Wrap((x * Beta) \div q)

multiply_uint_uint_mod(a, b, q) == (a * b) % q

div2_uint_mod(x, q) == IF x % 2 = 0 THEN x \div 2 ELSE (x + q) \div 2

RECURSIVE reverse_bits(_, _)
reverse_bits(i, k) ==
    IF k = 0 THEN 0
    ELSE (i % 2) * 2^(k - 1) + reverse_bits(i \div 2, k - 1)

RECURSIVE exponentiate_uint_mod(_, _, _)
exponentiate_uint_mod(x, e, q) ==
    IF e = 0 THEN 1 % q
    ELSE LET h == exponentiate_uint_mod(x, e \div 2, q)
         IN  IF e % 2 = 0 THEN (h * h) % q ELSE (((h * h) % q) * x) % q

\* x is a primitive degree-th root of unity modulo q.
is_primitive_root(x, degree, q) ==
    /\ exponentiate_uint_mod(x, degree, q) = 1
    /\ \A e \in 1..(degree - 1) : exponentiate_uint_mod(x, e, q) # 1

\* [ok, value]: the minimal primitive degree-th root modulo q, if there is one.
try_minimal_primitive_root(degree, q) ==
    LET R == {x \in 1..(q - 1) : is_primitive_root(x, degree, q)}
    IN  IF R = {} THEN [ok |-> FALSE, value |-> 0]
        ELSE [ok |-> TRUE, value |-> CHOOSE x \in R : \A y \in R : x <= y]

\* [ok, value]: the inverse of x modulo q, if there is one.
try_invert_uint_mod(x, q) ==
    LET R == {y \in 1..(q - 1) : (x * y) % q = 1}
    IN  IF R = {} THEN [ok |-> FALSE, value |-> 0]
        ELSE [ok |-> TRUE, value |-> CHOOSE y \in R : TRUE]

\* A fresh buffer of n words, its contents not yet written.
allocate_uint(n, junk) == [r \in 0..(n - 1) |-> junk]

(***************************************************************************)
(* SmallNTTTables                                                          *)
(***************************************************************************)

\* A default object: flag down, scalars zero, no buffers.
\* h_writes counts the stores ntt_powers_of_primitive_root made into each
\* slot of root_powers_ (history, not a member).
Default ==
    [ is_initialized_ |-> FALSE,
      modulus_ |-> 0,
      root_ |-> 0,
      root_powers_ |-> << >>,
      scaled_root_powers_ |-> << >>,
      inv_root_powers_ |-> << >>,
      scaled_inv_root_powers_ |-> << >>,
      inv_root_powers_div_two_ |-> << >>,
      scaled_inv_root_powers_div_two_ |-> << >>,
      inv_degree_modulo_ |-> 0,
      coeff_count_power_ |-> 0,
      coeff_count_ |-> 0,
      h_writes |-> << >> ]

\* reset() that does not release inv_root_powers_div_two_.
reset_keeps_a_buffer(obj) ==
    [Default EXCEPT !.inv_root_powers_div_two_ = obj.inv_root_powers_div_two_]

\* The object after reset().
reset(obj) ==
    [obj EXCEPT !.is_initialized_ = FALSE,
                !.modulus_ = 0,
                !.root_ = 0,
                !.root_powers_ = << >>,
                !.scaled_root_powers_ = << >>,
                !.inv_root_powers_ = << >>,
                !.scaled_inv_root_powers_ = << >>,
                !.inv_root_powers_div_two_ = << >>,
                !.scaled_inv_root_powers_div_two_ = << >>,
                !.inv_degree_modulo_ = 0,
                !.coeff_count_power_ = 0,
                !.coeff_count_ = 0,
                !.h_writes = << >>]

\* Lines 61-71: the sizes, six fresh buffers and the modulus.
allocated(k, q, junk) ==
    LET n == 2^k
    IN  [Default EXCEPT !.coeff_count_power_ = k,
                        !.coeff_count_ = n,
                        !.root_powers_ = allocate_uint(n, junk),
                        !.inv_root_powers_ = allocate_uint(n, junk),
                        !.scaled_root_powers_ = allocate_uint(n, junk),
                        !.scaled_inv_root_powers_ = allocate_uint(n, junk),
                        !.inv_root_powers_div_two_ = allocate_uint(n, junk),
                        !.scaled_inv_root_powers_div_two_ = allocate_uint(n, junk),
                        !.modulus_ = q]

\* One iteration of the fill loop: the slot written and the table after it.
powers_step_stale(i, destination, tab, root, k, q) ==
    LET next_destination == reverse_bits(i, k)
    IN  [ destination |-> next_destination,
          tab |-> [tab EXCEPT ![next_destination] =
                        multiply_uint_uint_mod(tab[0], root, q)] ]

powers_step(i, destination, tab, root, k, q) ==
    LET next_destination == reverse_bits(i, k)
    IN  [ destination |-> next_destination,
          tab |-> [tab EXCEPT ![next_destination] =
                        multiply_uint_uint_mod(tab[destination], root, q)] ]

RECURSIVE powers_loop(_, _, _, _, _, _, _)
powers_loop(i, destination, tab, writes, root, k, q) ==
    IF i >= 2^k THEN [tab |-> tab, writes |-> writes]
    ELSE LET s == powers_step(i, destination, tab, root, k, q)
         IN  powers_loop(i + 1, s.destination, s.tab,
                         [writes EXCEPT ![s.destination] = @ + 1], root, k, q)

\* The filled table and the number of stores into each of its slots.
ntt_powers_of_primitive_root(root, destination, k, q) ==
    powers_loop(1, 0, [destination EXCEPT ![0] = 1],
                [[r \in DOMAIN destination |-> 0] EXCEPT ![0] = 1], root, k, q)

ntt_scale_powers_of_primitive_root(input, q) ==
    [r \in DOMAIN input |-> divide_uint128_uint64_inplace(input[r], q)]

\* The reordering loops: temp is filled from offset first on, for
\* m = n/2, n/4, ..., 1, with buf[m], ..., buf[2m-1].
RECURSIVE reorder_loop(_, _, _, _)
reorder_loop(m, temp_ptr, temp, buf) ==
    IF m = 0 THEN temp
    ELSE reorder_loop(m \div 2, temp_ptr + m,
                      [r \in DOMAIN temp |->
                          IF temp_ptr <= r /\ r < temp_ptr + m
                          THEN buf[m + (r - temp_ptr)] ELSE temp[r]],
                      buf)

reorder_from_zero(buf, n, junk) ==
    reorder_loop(n \div 2, 0, allocate_uint(n, junk), buf)

\* temp is allocated, filled from temp + 1 on and copied back whole
\* (set_uint_uint), slot 0 included, which nobody wrote.
reorder(buf, n, junk) ==
    reorder_loop(n \div 2, 1, allocate_uint(n, junk), buf)

\* Lines 87-125: the six tables filled in, obj being the allocated object
\* with its root found.
populate(obj, inverse_root, junk) ==
    LET n == obj.coeff_count_
        k == obj.coeff_count_power_
        q == obj.modulus_
        fwd == ntt_powers_of_primitive_root(obj.root_, obj.root_powers_, k, q)
        inv == ntt_powers_of_primitive_root(inverse_root, obj.inv_root_powers_, k, q).tab
        sinv == ntt_scale_powers_of_primitive_root(inv, q)
        half == [r \in 0..(n - 1) |-> div2_uint_mod(inv[r], q)]
    IN  [obj EXCEPT !.root_powers_ = fwd.tab,
                    !.scaled_root_powers_ = ntt_scale_powers_of_primitive_root(fwd.tab, q),
                    !.inv_root_powers_ = reorder(inv, n, junk),
                    !.scaled_inv_root_powers_ = reorder(sinv, n, junk),
                    !.inv_root_powers_div_two_ = half,
                    !.scaled_inv_root_powers_div_two_ =
                        ntt_scale_powers_of_primitive_root(half, q),
                    !.h_writes = fwd.writes]

\* initialize without the reset() of its last failure branch.
initialize_no_last_reset(coeff_count_power, modulus, junk) ==
    LET A == allocated(coeff_count_power, modulus, junk)
        found == try_minimal_primitive_root(2 * A.coeff_count_, modulus)
        R == [A EXCEPT !.root_ = found.value]
        inverse_root == try_invert_uint_mod(found.value, modulus)
        T == populate(R, inverse_root.value, junk)
        degree == try_invert_uint_mod(A.coeff_count_ % modulus, modulus)
    IN  IF ~found.ok THEN reset(A)
        ELSE IF ~inverse_root.ok THEN reset(R)
        ELSE IF ~degree.ok THEN T
        ELSE [T EXCEPT !.is_initialized_ = TRUE, !.inv_degree_modulo_ = degree.value]

\* The object initialize(coeff_count_power, modulus) leaves behind; the
\* reset() it starts with makes it independent of the object before.
initialize(coeff_count_power, modulus, junk) ==
    LET A == allocated(coeff_count_power, modulus, junk)
        found == try_minimal_primitive_root(2 * A.coeff_count_, modulus)
        R == [A EXCEPT !.root_ = found.value]
        inverse_root == try_invert_uint_mod(found.value, modulus)
        T == populate(R, inverse_root.value, junk)
        degree == try_invert_uint_mod(A.coeff_count_ % modulus, modulus)
    IN  IF ~found.ok THEN reset(A)
        ELSE IF ~inverse_root.ok THEN reset(R)
        ELSE IF ~degree.ok THEN reset(T)
        ELSE [T EXCEPT !.is_initialized_ = TRUE, !.inv_degree_modulo_ = degree.value]

(***************************************************************************)
(* Butterflies.  Each returns the two stored words; "exact" tells whether  *)
(* every addition and subtraction outside the Shoup product stayed inside  *)
(* the word (history, not computed by the source).                         *)
(***************************************************************************)

\* two_times_modulus & uint64_t(-int64_t(x >= two_times_modulus))
mask_if_ge(x, two_times_modulus) ==
    IF x >= two_times_modulus THEN two_times_modulus ELSE 0

\* The forward butterfly without the correction of X into [0, 2q).
forward_butterfly_no_correction(X, Y, W, Wprime, modulus) ==
    LET two_times_modulus == Wrap(modulus * 2)
        tx == X
        Qh == multiply_uint64_hw64(Wprime, Y)
        Q == Wrap(Y * W - Qh * modulus)
    IN  [ x |-> Wrap(tx + Q),
          y |-> Wrap(tx + two_times_modulus - Q),
          exact |-> /\ modulus * 2 < Beta
                    /\ tx + Q < Beta
                    /\ tx + two_times_modulus < Beta
                    /\ tx + two_times_modulus - Q >= 0 ]

\* Lines 204-209, 251-256:  X', Y' = X + WY, X - WY, lazily.
forward_butterfly(X, Y, W, Wprime, modulus) ==
    LET two_times_modulus == Wrap(modulus * 2)
        tx == Wrap(X - mask_if_ge(X, two_times_modulus))
        Qh == multiply_uint64_hw64(Wprime, Y)
        Q == Wrap(Y * W - Qh * modulus)
    IN  [ x |-> Wrap(tx + Q),
          y |-> Wrap(tx + two_times_modulus - Q),
          exact |-> /\ modulus * 2 < Beta
                    /\ tx + Q < Beta
                    /\ tx + two_times_modulus < Beta
                    /\ tx + two_times_modulus - Q >= 0 ]

\* The inverse butterfly with ty = X - Y, the 2q left out.
inverse_butterfly_no_offset(X, Y, W, Wprime, modulus) ==
    LET two_times_modulus == Wrap(modulus * 2)
        tx == Wrap(X + Y)
        ty == Wrap(X - Y)
        Qh == multiply_uint64_hw64(Wprime, ty)
    IN  [ x |-> Wrap(tx - mask_if_ge(tx, two_times_modulus)),
          y |-> Wrap(ty * W - Qh * modulus),
          exact |-> TRUE ]

\* Lines 299-304, 345-350.
inverse_butterfly(X, Y, W, Wprime, modulus) ==
    LET two_times_modulus == Wrap(modulus * 2)
        tx == Wrap(X + Y)
        ty == Wrap(X + two_times_modulus - Y)
        Qh == multiply_uint64_hw64(Wprime, ty)
    IN  [ x |-> Wrap(tx - mask_if_ge(tx, two_times_modulus)),
          y |-> Wrap(ty * W - Qh * modulus),
          exact |-> TRUE ]

\* The last butterfly with the quotient of Y taken with inv_Nprime.
final_butterfly_one_quotient(X, Y, inv_N, inv_Nprime, inv_N_W, inv_N_Wprime, modulus) ==
    LET two_times_modulus == Wrap(modulus * 2)
        tx0 == Wrap(X + Y)
        tx == Wrap(tx0 - mask_if_ge(tx0, two_times_modulus))
        ty == Wrap(X + two_times_modulus - Y)
        Qx == multiply_uint64_hw64(inv_Nprime, tx)
        Qy == multiply_uint64_hw64(inv_Nprime, ty)
    IN  [ x |-> Wrap(inv_N * tx - Qx * modulus),
          y |-> Wrap(inv_N_W * ty - Qy * modulus),
          exact |-> TRUE ]

\* Lines 379-386: the last stage, merged with the multiplication by n^(-1).
final_butterfly(X, Y, inv_N, inv_Nprime, inv_N_W, inv_N_Wprime, modulus) ==
    LET two_times_modulus == Wrap(modulus * 2)
        tx0 == Wrap(X + Y)
        tx == Wrap(tx0 - mask_if_ge(tx0, two_times_modulus))
        ty == Wrap(X + two_times_modulus - Y)
        Qx == multiply_uint64_hw64(inv_Nprime, tx)
        Qy == multiply_uint64_hw64(inv_N_Wprime, ty)
    IN  [ x |-> Wrap(inv_N * tx - Qx * modulus),
          y |-> Wrap(inv_N_W * ty - Qy * modulus),
          exact |-> TRUE ]

(***************************************************************************)
(* The effect of one butterfly on the buffer: *X++ = b.x, *Y++ = b.y.      *)
(* st = [buf, touched, oob, wrapped]; touched lists the indices stored to  *)
(* in the current stage, oob records a pointer that left the buffer.       *)
(***************************************************************************)
store(st, X, Y, b) ==
    IF X \in DOMAIN st.buf /\ Y \in DOMAIN st.buf
    THEN [ buf |-> [st.buf EXCEPT ![X] = b.x, ![Y] = b.y],
           touched |-> st.touched \o <<X, Y>>,
           oob |-> st.oob,
           wrapped |-> st.wrapped \/ ~b.exact ]
    ELSE [st EXCEPT !.oob = TRUE]

\* A value read through a pointer: junk outside the buffer.
load(st, X) == IF X \in DOMAIN st.buf THEN st.buf[X] ELSE 0

fwd_at(st, X, Y, W, Wprime, modulus) ==
    store(st, X, Y, forward_butterfly(load(st, X), load(st, Y), W, Wprime, modulus))

inv_at(st, X, Y, W, Wprime, modulus) ==
    store(st, X, Y, inverse_butterfly(load(st, X), load(st, Y), W, Wprime, modulus))

\* for (j = j1; j < j2; j++) { butterfly; X++, Y++ }
RECURSIVE forward_scalar_loop(_, _, _, _, _, _, _, _)
forward_scalar_loop(j, j2, X, Y, st, W, Wprime, modulus) ==
    IF j >= j2 THEN st
    ELSE forward_scalar_loop(j + 1, j2, X + 1, Y + 1,
                             fwd_at(st, X, Y, W, Wprime, modulus),
                             W, Wprime, modulus)

\* for (j = j1; j < j2; j += 4) { four butterflies, X++ and Y++ after each }
RECURSIVE forward_unrolled_loop(_, _, _, _, _, _, _, _)
forward_unrolled_loop(j, j2, X, Y, st, W, Wprime, modulus) ==
    IF j >= j2 THEN st
    ELSE LET s1 == fwd_at(st, X, Y, W, Wprime, modulus)
             s2 == fwd_at(s1, X + 1, Y + 1, W, Wprime, modulus)
             s3 == fwd_at(s2, X + 2, Y + 2, W, Wprime, modulus)
             s4 == fwd_at(s3, X + 3, Y + 3, W, Wprime, modulus)
         IN  forward_unrolled_loop(j + 4, j2, X + 4, Y + 4, s4, W, Wprime, modulus)

RECURSIVE inverse_scalar_loop(_, _, _, _, _, _, _, _)
inverse_scalar_loop(j, j2, X, Y, st, W, Wprime, modulus) ==
    IF j >= j2 THEN st
    ELSE inverse_scalar_loop(j + 1, j2, X + 1, Y + 1,
                             inv_at(st, X, Y, W, Wprime, modulus),
                             W, Wprime, modulus)

RECURSIVE inverse_unrolled_loop(_, _, _, _, _, _, _, _)
inverse_unrolled_loop(j, j2, X, Y, st, W, Wprime, modulus) ==
    IF j >= j2 THEN st
    ELSE LET s1 == inv_at(st, X, Y, W, Wprime, modulus)
             s2 == inv_at(s1, X + 1, Y + 1, W, Wprime, modulus)
             s3 == inv_at(s2, X + 2, Y + 2, W, Wprime, modulus)
             s4 == inv_at(s3, X + 3, Y + 3, W, Wprime, modulus)
         IN  inverse_unrolled_loop(j + 4, j2, X + 4, Y + 4, s4, W, Wprime, modulus)

\* for (j = n >> 1; j < n; j++) with X = operand, Y = X + (n >> 1).
RECURSIVE final_loop(_, _, _, _, _, _, _, _, _, _)
final_loop(j, n, X, Y, st, inv_N, inv_Nprime, inv_N_W, inv_N_Wprime, modulus) ==
    IF j >= n THEN st
    ELSE final_loop(j + 1, n, X + 1, Y + 1,
                    store(st, X, Y,
                          final_butterfly(load(st, X), load(st, Y), inv_N, inv_Nprime,
                                          inv_N_W, inv_N_Wprime, modulus)),
                    inv_N, inv_Nprime, inv_N_W, inv_N_Wprime, modulus)

(***************************************************************************)
(* Operands the passes are run on.                                         *)
(***************************************************************************)

\* Buffers of n words over the values V: constant, alternating, one
\* non-zero entry.
Vectors(n, V) ==
    {[j \in 0..(n - 1) |-> IF j % 2 = 0 THEN u ELSE v] : u \in V, v \in V}
    \cup {[j \in 0..(n - 1) |-> IF j = p THEN v ELSE 0] : p \in 0..(n - 1), v \in V}

\* Buffers of n words scattered over [0, bound).
Scrambled(n, bound) ==
    {[j \in 0..(n - 1) |-> ((j + s) * (j + s) * s + 7 * j) % bound] : s \in 1..MaxSeeds}
    \cup {[j \in 0..(n - 1) |-> (bound - 1 - j) % bound]}

\* Inputs of the forward pass lie in [0, q); the inverse pass also takes
\* [0, 2q).
Operands(n, q) ==
    Vectors(n, {0, 1, q - 1}) \cup Scrambled(n, q)
    \cup Vectors(n, {q, 2 * q - 1}) \cup Scrambled(n, 2 * q)

VARIABLES
    tables,      \* the SmallNTTTables object
    operand,     \* the buffer a pass works on, << >> when there is none
    pc,          \* "new", "idle", "ready", "fwd", "fwd_done", "inv", "inv_done"
    m, t, i, j1, \* the loop variables of the pass under way
    root_index,  \* the root cursor of the inverse pass
    h,           \* history of the pass under way (not program state)
    args         \* the constructor's arguments (history)

vars == <<tables, operand, pc, m, t, i, j1, root_index, h, args>>

\* h.a0       the operand as it was loaded
\* h.trip     the operand is the reduced forward transform of h.a0
\* h.stage    stages completed by the pass under way
\* h.touched  indices stored to in the current stage, in order
\* h.oob      a butterfly pointer left the buffer
\* h.wrapped  an addition or subtraction of a forward butterfly wrapped
\* h.branch   the branches taken by the stages so far
\* h.reads    the root reads of the inverse pass: index, stage m, block i, W
NoHistory ==
    [ a0 |-> << >>, trip |-> FALSE, stage |-> 0, touched |-> << >>, oob |-> FALSE,
      wrapped |-> FALSE, branch |-> << >>, reads |-> << >> ]

\* size_t n = size_t(1) << tables.coeff_count_power()
N == 2^tables.coeff_count_power_

Idle ==
    /\ operand' = << >>
    /\ pc' = "idle"
    /\ m' = 0 /\ t' = 0 /\ i' = 0 /\ j1' = 0 /\ root_index' = 0
    /\ h' = NoHistory

\* The object before its constructor has run.
Init ==
    /\ tables = Default
    /\ operand = << >>
    /\ pc = "new"
    /\ m = 0 /\ t = 0 /\ i = 0 /\ j1 = 0 /\ root_index = 0
    /\ h = NoHistory
    /\ args = [coeff_count_power |-> 0, modulus |-> 0]

\* The constructor: initialize(coeff_count_power, modulus) on the new object,
\* whose pool memory holds junk.
Construct ==
    /\ pc = "new"
    /\ \E k \in Powers, q \in Moduli, junk \in Junk :
          /\ tables' = initialize(k, q, junk)
          /\ args' = [coeff_count_power |-> k, modulus |-> q]
    /\ pc' = "idle"
    /\ UNCHANGED <<operand, m, t, i, j1, root_index, h>>

\* The caller hands a buffer of n words to the passes.
Load ==
    /\ pc = "idle"
    /\ tables.is_initialized_
    /\ \E a \in Operands(N, tables.modulus_) :
          /\ operand' = a
          /\ h' = [NoHistory EXCEPT !.a0 = a]
    /\ pc' = "ready"
    /\ UNCHANGED <<args, tables, m, t, i, j1, root_index>>

st_now == [buf |-> operand, touched |-> h.touched, oob |-> h.oob, wrapped |-> h.wrapped]

\* ntt_negacyclic_harvey_lazy up to the first stage.
ForwardEnter ==
    /\ pc = "ready"
    /\ ~h.trip
    /\ \A j \in DOMAIN operand : operand[j] < tables.modulus_
    /\ pc' = "fwd"
    /\ t' = N \div 2
    /\ m' = 1
    /\ j1' = 0
    /\ i' = 0
    /\ UNCHANGED <<args, tables, operand, root_index, h>>

\* What one block of a forward stage advances: j1 += (t << 1).
forward_j1_short(j, tt) == j + tt

forward_j1(j, tt) == j + 2 * tt

\* The root a forward block reads.
forward_root_block_only(mm, ii) == ii

forward_root(mm, ii) == mm + ii

ForwardBlock(unrolled) ==
    /\ pc = "fwd"
    /\ m < N
    /\ i < m
    /\ LET j2 == j1 + t
           W == tables.root_powers_[forward_root(m, i)]
           Wprime == tables.scaled_root_powers_[forward_root(m, i)]
           st == IF unrolled
                 THEN forward_unrolled_loop(j1, j2, j1, j1 + t, st_now, W, Wprime,
                                            tables.modulus_)
                 ELSE forward_scalar_loop(j1, j2, j1, j1 + t, st_now, W, Wprime,
                                          tables.modulus_)
       IN  /\ operand' = st.buf
           /\ h' = [h EXCEPT !.touched = st.touched, !.oob = st.oob,
                             !.wrapped = st.wrapped,
                             !.branch = IF i = 0
                                        THEN @ \o <<IF unrolled THEN "unrolled" ELSE "scalar">>
                                        ELSE @]
    /\ j1' = forward_j1(j1, t)
    /\ i' = i + 1
    /\ UNCHANGED <<args, tables, pc, m, t, root_index>>

\* if (t >= 4): the fourfold-unrolled block.
ForwardBlockUnrolled == t >= 4 /\ ForwardBlock(TRUE)

\* else: the scalar block.
ForwardBlockScalar == t < 4 /\ ForwardBlock(FALSE)

\* The end of a stage: t >>= 1, m <<= 1, and the loop test m < n.
ForwardStageEnd ==
    /\ pc = "fwd"
    /\ m < N
    /\ i = m
    /\ t' = t \div 2
    /\ m' = m * 2
    /\ j1' = 0
    /\ i' = 0
    /\ pc' = IF m * 2 < N THEN "fwd" ELSE "fwd_done"
    /\ h' = [h EXCEPT !.stage = @ + 1, !.touched = << >>]
    /\ UNCHANGED <<args, tables, operand, root_index>>

\* The caller reduces the lazy output into [0, 2q) before inverting.
Reduce ==
    /\ pc = "fwd_done"
    /\ operand' = [j \in DOMAIN operand |->
                      operand[j] - mask_if_ge(operand[j], 2 * tables.modulus_)]
    /\ pc' = "ready"
    /\ h' = [NoHistory EXCEPT !.a0 = h.a0, !.trip = TRUE]
    /\ m' = 0 /\ t' = 0 /\ i' = 0 /\ j1' = 0
    /\ UNCHANGED <<args, tables, root_index>>

\* inverse_ntt_negacyclic_harvey_lazy up to the first stage.
InverseEnter ==
    /\ pc = "ready"
    /\ \A j \in DOMAIN operand : operand[j] < 2 * tables.modulus_
    /\ pc' = "inv"
    /\ t' = 1
    /\ root_index' = 1
    /\ m' = N \div 2
    /\ j1' = 0
    /\ i' = 0
    /\ UNCHANGED <<args, tables, operand, h>>

\* The cursor after a block: i++, root_index++.
inverse_cursor_stuck(r, unrolled) == IF unrolled THEN r ELSE r + 1

inverse_cursor(r, unrolled) == r + 1

InverseBlock(unrolled) ==
    /\ pc = "inv"
    /\ m > 1
    /\ i < m
    /\ LET j2 == j1 + t
           W == tables.inv_root_powers_[root_index]
           Wprime == tables.scaled_inv_root_powers_[root_index]
           st == IF unrolled
                 THEN inverse_unrolled_loop(j1, j2, j1, j1 + t, st_now, W, Wprime,
                                            tables.modulus_)
                 ELSE inverse_scalar_loop(j1, j2, j1, j1 + t, st_now, W, Wprime,
                                          tables.modulus_)
       IN  /\ operand' = st.buf
           /\ h' = [h EXCEPT !.touched = st.touched, !.oob = st.oob,
                             !.reads = @ \o <<[index |-> root_index, m |-> m,
                                               i |-> i, W |-> W]>>,
                             !.branch = IF i = 0
                                        THEN @ \o <<IF unrolled THEN "unrolled" ELSE "scalar">>
                                        ELSE @]
    /\ j1' = j1 + 2 * t
    /\ i' = i + 1
    /\ root_index' = inverse_cursor(root_index, unrolled)
    /\ UNCHANGED <<args, tables, pc, m, t>>

InverseBlockUnrolled == t >= 4 /\ InverseBlock(TRUE)

InverseBlockScalar == t < 4 /\ InverseBlock(FALSE)

\* The end of a loop stage: t <<= 1, m >>= 1.
InverseStageEnd ==
    /\ pc = "inv"
    /\ m > 1
    /\ i = m
    /\ t' = t * 2
    /\ m' = m \div 2
    /\ j1' = 0
    /\ i' = 0
    /\ h' = [h EXCEPT !.stage = @ + 1, !.touched = << >>]
    /\ UNCHANGED <<args, tables, operand, pc, root_index>>

\* Lines 358-370: the multipliers of the last stage.
final_multipliers(inv_N, W, modulus) ==
    LET inv_N_W == multiply_uint_uint_mod(inv_N, W, modulus)
    IN  [ inv_N |-> inv_N,
          inv_Nprime |-> divide_uint128_uint64_inplace(inv_N, modulus),
          inv_N_W |-> inv_N_W,
          inv_N_Wprime |-> divide_uint128_uint64_inplace(inv_N_W, modulus) ]

\* The loop has ended (m = 1): the last stage, and the pass returns.
InverseFinal ==
    /\ pc = "inv"
    /\ m <= 1
    /\ LET W == tables.inv_root_powers_[root_index]
           c == final_multipliers(tables.inv_degree_modulo_, W, tables.modulus_)
           st == final_loop(N \div 2, N, 0, N \div 2, st_now, c.inv_N, c.inv_Nprime,
                            c.inv_N_W, c.inv_N_Wprime, tables.modulus_)
       IN  /\ operand' = st.buf
           /\ h' = [h EXCEPT !.touched = st.touched, !.oob = st.oob,
                             !.stage = @ + 1,
                             !.reads = @ \o <<[index |-> root_index, m |-> 1,
                                               i |-> 0, W |-> W]>>]
    /\ pc' = "inv_done"
    /\ UNCHANGED <<args, tables, m, t, i, j1, root_index>>

\* The caller is done with the buffer.
Finish ==
    /\ pc \in {"fwd_done", "inv_done"}
    /\ Idle
    /\ UNCHANGED <<args, tables>>

Next ==
    \/ Construct
    \/ Load
    \/ ForwardEnter
    \/ ForwardBlockUnrolled
    \/ ForwardBlockScalar
    \/ ForwardStageEnd
    \/ Reduce
    \/ InverseEnter
    \/ InverseBlockUnrolled
    \/ InverseBlockScalar
    \/ InverseStageEnd
    \/ InverseFinal
    \/ Finish

Spec == Init /\ [][Next]_vars

(***************************************************************************)
(* Properties.                                                             *)
(***************************************************************************)

IsPrime(q) == q >= 2 /\ \A d \in 2..(q - 1) : q % d # 0

Buffers(T) ==
    << T.root_powers_, T.scaled_root_powers_, T.inv_root_powers_,
       T.scaled_inv_root_powers_, T.inv_root_powers_div_two_,
       T.scaled_inv_root_powers_div_two_ >>

\* The table of the contract: initialized for a prime q = 1 (mod 2n) below
\* the modulus limit.
ValidTable ==
    /\ tables.is_initialized_
    /\ IsPrime(tables.modulus_)
    /\ (tables.modulus_ - 1) % (2 * N) = 0
    /\ tables.modulus_ < 2^(WordBits - 2)

\* psi^e mod q for the stored root.
PsiPower(e) == exponentiate_uint_mod(tables.root_, e, tables.modulus_)

\* The bit-reversed table of the powers of psi^(-1): raw[bitrev(i)] =
\* psi^(-i) = psi^(2n - i) mod q.
RawInv ==
    [r \in 0..(N - 1) |->
        PsiPower((2 * N - reverse_bits(r, tables.coeff_count_power_)) % (2 * N))]

\* floor(x * 2^w / q), the Shoup multiplier of x.
Shoup(x) == (x * Beta) \div tables.modulus_

\* raw[m..2m-1] for m = n/2, n/4, ..., 1, one after the other.
RECURSIVE SliceLayout(_, _)
SliceLayout(raw, mm) ==
    IF mm = 0 THEN << >>
    ELSE [p \in 1..mm |-> raw[mm + p - 1]] \o SliceLayout(raw, mm \div 2)

\* C5: once the constructor has run, the object is either initialized with
\* all six buffers holding n = 2^coeff_count_power words, or it is in the
\* reset state: flag down, the six buffers released, root, inv_degree_modulo,
\* coeff_count_power, coeff_count and the modulus zero.  A failure at any
\* failure point of initialize ends in the second.
C5_NoPartialTable ==
    pc # "new" =>
        \/ /\ tables.is_initialized_
           /\ tables.coeff_count_power_ = args.coeff_count_power
           /\ tables.coeff_count_ = 2^args.coeff_count_power
           /\ tables.modulus_ = args.modulus
           /\ \A b \in 1..6 : DOMAIN Buffers(tables)[b] = 0..(tables.coeff_count_ - 1)
        \/ /\ ~tables.is_initialized_
           /\ \A b \in 1..6 : Buffers(tables)[b] = << >>
           /\ tables.root_ = 0
           /\ tables.inv_degree_modulo_ = 0
           /\ tables.coeff_count_power_ = 0
           /\ tables.coeff_count_ = 0
           /\ tables.modulus_ = 0

\* C5 witness: initialize failed at its last failure point, after the tables
\* had been filled (a root was found and inverted, n has no inverse).
C5_FailedAfterPopulating ==
    /\ pc = "idle"
    /\ ~tables.is_initialized_
    /\ try_minimal_primitive_root(2 * 2^args.coeff_count_power, args.modulus).ok
    /\ ~try_invert_uint_mod(2^args.coeff_count_power % args.modulus, args.modulus).ok

C7_RootPowersBitReversed ==
    (pc = "idle" /\ tables.is_initialized_) =>
        /\ tables.root_ =
              try_minimal_primitive_root(2 * N, args.modulus).value
        /\ \A e \in 0..(N - 1) :
              tables.root_powers_[reverse_bits(e, tables.coeff_count_power_)]
                  = PsiPower(e)
        /\ tables.root_powers_[0] = 1
        /\ tables.root_powers_[reverse_bits(1, tables.coeff_count_power_)]
              = tables.root_ % tables.modulus_
        /\ \A r \in 0..(N - 1) : tables.h_writes[r] = 1

\* C7 witness: a table of sixteen roots has been built over junk memory.
C7_BuiltSixteen ==
    /\ pc = "idle"
    /\ tables.is_initialized_
    /\ N = 16
    /\ tables.inv_root_powers_[0] = Beta - 1

RECURSIVE PolyEval(_, _, _, _)
PolyEval(a, j, x, q) ==
    IF j = N - 1 THEN a[j] % q
    ELSE (a[j] + x * PolyEval(a, j + 1, x, q)) % q

\* C1: while and after ntt_negacyclic_harvey_lazy runs on an input in
\* [0, q)^n with a table of the contract, every entry of the buffer is below
\* 4q, 4q fits the word, and no addition or subtraction of a butterfly
\* (tx + Q, tx + 2q - Q) has wrapped.
C1_ForwardBelowFourQ ==
    (pc \in {"fwd", "fwd_done"} /\ ValidTable) =>
        /\ \A j \in DOMAIN operand : operand[j] < 4 * tables.modulus_
        /\ 4 * tables.modulus_ < Beta
        /\ ~h.wrapped

\* C1 witness: a forward pass over eight or more words has ended with an
\* entry in [3q, 4q).
C1_LazyRangeUsed ==
    /\ pc = "fwd_done"
    /\ ValidTable
    /\ N >= 8
    /\ \E j \in DOMAIN operand : operand[j] >= 3 * tables.modulus_

\* C2 as stated: after inverse_ntt_negacyclic_harvey_lazy on an input in
\* [0, 2q)^n every entry is below q.
C2_InverseBelowQ ==
    (pc = "inv_done" /\ ValidTable) =>
        \A j \in DOMAIN operand : operand[j] < tables.modulus_

\* C2 amended: after inverse_ntt_negacyclic_harvey_lazy on an input in
\* [0, 2q)^n every entry is below 2q.
C2_InverseBelowTwoQ ==
    (pc = "inv_done" /\ ValidTable) =>
        \A j \in DOMAIN operand : operand[j] < 2 * tables.modulus_

\* C2 witness: an inverse pass on an input holding entries of [q, 2q) has
\* ended with an entry in [q, 2q).
C2_InverseLeftAboveQ ==
    /\ pc = "inv_done"
    /\ ValidTable
    /\ ~h.trip
    /\ \E j \in DOMAIN h.a0 : h.a0[j] >= tables.modulus_
    /\ \E j \in DOMAIN operand : operand[j] >= tables.modulus_

\* C3 as stated: forward, reduction into [0, 2q), inverse gives back the
\* input word for word.
C3_RoundTripExact ==
    (pc = "inv_done" /\ h.trip /\ ValidTable) => operand = h.a0

\* C3 amended: forward, reduction into [0, 2q), inverse gives back the input
\* modulo q: every entry is a[j] or a[j] + q.
C3_RoundTripModuloQ ==
    (pc = "inv_done" /\ h.trip /\ ValidTable) =>
        \A j \in DOMAIN operand :
            operand[j] \in {h.a0[j], h.a0[j] + tables.modulus_}

\* C3 witness: a round trip of the zero polynomial has ended with an entry
\* equal to q.
C3_ZeroCameBackAsQ ==
    /\ pc = "inv_done"
    /\ h.trip
    /\ ValidTable
    /\ \A j \in DOMAIN h.a0 : h.a0[j] = 0
    /\ \E j \in DOMAIN operand : operand[j] = tables.modulus_

\* C4: the forward pass leaves A[j] = a(psi^(2 bitrev(j) + 1)) (mod q) for
\* every j in [0, n), a being the input polynomial.
C4_ForwardEvaluatesAtOddPowers ==
    (pc = "fwd_done" /\ ValidTable) =>
        \A j \in DOMAIN operand :
            operand[j] % tables.modulus_ =
                PolyEval(h.a0, 0,
                         PsiPower(2 * reverse_bits(j, tables.coeff_count_power_) + 1),
                         tables.modulus_)

\* C4 witness: the forward pass of a polynomial of sixteen non-zero
\* coefficients has ended.
C4_TransformedSixteen ==
    /\ pc = "fwd_done"
    /\ ValidTable
    /\ N = 16
    /\ \A j \in DOMAIN h.a0 : h.a0[j] # 0
    /\ \E j, l \in DOMAIN h.a0 : h.a0[j] # h.a0[l]

\* C9: in the inverse pass the p-th root read is at index p: the loop stages
\* (m = n/2 down to 2) read indices 1..n-2, block i of stage m reading
\* raw[m + i], and the last stage reads index n-1, which holds raw[1];
\* index 0 and indices from n on are never read.  For n = 2 the loop reads
\* nothing and the last stage reads index 1.
C9_RootCursorSequential ==
    (pc \in {"inv", "inv_done"} /\ tables.is_initialized_) =>
        /\ \A p \in 1..Len(h.reads) :
              LET r == h.reads[p]
              IN  /\ r.index = p
                  /\ r.index \in 1..(N - 1)
                  /\ r.W = RawInv[r.m + r.i]
                  /\ r.m >= 2 => (r.index <= N - 2 /\ r.i < r.m)
                  /\ r.m = 1 => (r.index = N - 1 /\ r.i = 0 /\ pc = "inv_done")
        /\ pc = "inv" => root_index = Len(h.reads) + 1
        /\ (pc = "inv" /\ m <= 1) => root_index = N - 1
        /\ pc = "inv_done" => Len(h.reads) = N - 1
        /\ (pc = "inv_done" /\ N = 2) => h.stage = 1

\* C9 witness: an inverse pass over sixteen words, whose last loop stage took
\* the unrolled branch, has read its fifteen roots.
C9_ReadFifteenRoots ==
    /\ pc = "inv_done"
    /\ N = 16
    /\ Len(h.reads) = 15
    /\ h.branch = <<"scalar", "scalar", "unrolled">>

\* The m and t of stage number s (from 0) of the forward pass.
StageM(s) == 2^s
StageT(s) == N \div (2 * 2^s)

\* C10: the forward pass runs log2(n) stages, stage s with m = 2^s and
\* t = n / 2m; the butterflies of a stage store to pairs (j, j + t) inside
\* [0, n), no index twice, and at the end of the stage to every index: n/2
\* butterflies.  A stage takes the unrolled branch exactly when t >= 4, and
\* there the unrolled block does what the scalar block would have done.
C10_ForwardSchedule ==
    (pc \in {"fwd", "fwd_done"} /\ tables.is_initialized_) =>
        /\ ~h.oob
        /\ pc = "fwd_done" => h.stage = tables.coeff_count_power_
        /\ pc = "fwd" =>
              /\ h.stage < tables.coeff_count_power_
              /\ m = StageM(h.stage)
              /\ t = StageT(h.stage)
              /\ Len(h.touched) = 2 * i * t
              /\ \A p, r \in 1..Len(h.touched) :
                    p # r => h.touched[p] # h.touched[r]
              /\ \A p \in 1..Len(h.touched) :
                    /\ h.touched[p] \in 0..(N - 1)
                    /\ p % 2 = 1 => h.touched[p + 1] = h.touched[p] + t
              /\ i = m =>
                    /\ {h.touched[p] : p \in 1..Len(h.touched)} = 0..(N - 1)
                    /\ Len(h.touched) = N
              /\ (i < m /\ t >= 4) =>
                    LET W == tables.root_powers_[m + i]
                        Wprime == tables.scaled_root_powers_[m + i]
                    IN  forward_unrolled_loop(j1, j1 + t, j1, j1 + t, st_now, W,
                                              Wprime, tables.modulus_)
                        = forward_scalar_loop(j1, j1 + t, j1, j1 + t, st_now, W,
                                              Wprime, tables.modulus_)
        /\ \A s \in 1..Len(h.branch) :
              h.branch[s] = IF StageT(s - 1) >= 4 THEN "unrolled" ELSE "scalar"

\* C10 witness: an unrolled stage of a pass over sixteen words has done its
\* last block.
C10_UnrolledStageDone ==
    /\ pc = "fwd"
    /\ N = 16
    /\ t >= 4
    /\ i = m
    /\ m = 2
====
